---- MODULE Spec2Model ----
(***************************************************************************)
(* The RPC client of lib/rpc-client/client.js: the lifecycle state machine *)
(* (start, stop, rpcInvoke) and the interception routine proxyCB of the    *)
(* generated stubs, with the Router and the mail Station as environment.   *)
(***************************************************************************)
EXTENDS Integers, Sequences, FiniteSets, TLC

\* ---------------------------------------------------------------- bounds
MaxStarts == 2      \* start calls delegated to the Station
MaxCalls  == 2      \* calls that reach the Router or the Station
MaxArgs   == 4      \* longest argument list of a stub call
MaxPaths  == 3      \* longest opts.paths of a construction

\* ------------------------------------------------------------- constants
STATE_NONE    == 0      \* client.state before the constructor assigns it
STATE_INITED  == 1
STATE_STARTED == 2
STATE_CLOSED  == 3

NoErr == "null"                                \* no error / undefined
AlreadyStarted == "rpc client has started."    \* new Error(...) of start
NotRunningInvoke == "fail to do rpc invoke for client is not running"
NotRunningProxy == "fail to invoke rpc proxy for client is not running"
NoThrow == "none"
Undefined == "undefined"

\* ------------------------------------------------- environment's values
StartErrs == {"startErr"}               \* errors the Station's start reports
RouteErrs == {"routeErrA", "routeErrB"} \* errors the Router reports
ServerIds == {"s1", "s2"}               \* server ids the Router resolves
Replies   == {"reply"}                  \* what the Station hands a callback
Hints     == {"h"}                      \* routing hints (first argument)
Handler   == "cb"                       \* the completion handler (last)

\* The stubs the registry holds: attach is captured at generation time.
Stubs ==
  { [attach |-> [namespace |-> "user", serverType |-> "chat"],
     service |-> "chatRemote", method |-> "send"],
    [attach |-> [namespace |-> "sys", serverType |-> "gate"],
     service |-> "gateRemote", method |-> "kick"] }

\* The arguments between the hint and the handler, in the order they are passed.
PayloadSeq == <<"a", "b", "c", "d">>

\* The argument lists a caller passes to a stub member: the short ones (0, 1
\* and 2 arguments) and the longest.
ArgLists ==
  { <<>> } \cup { <<x>> : x \in Hints \cup {Handler} }
  \cup { <<h>> \o SubSeq(PayloadSeq, 1, n) \o <<Handler>> :
           h \in Hints, n \in {0, MaxArgs - 2} }

\* ------------------------------------------------------------ construction
\* What the discovery collaborator finds at a path: the service module's name,
\* or nothing.
Discover(path) ==
  CASE path = "/remote/chat" -> <<"chatRemote">>
    [] path = "/remote/gate" -> <<"gateRemote">>
    [] OTHER -> <<>>

Namespaces  == {"user", "sys"}
ServerTypes == {"chat", "gate"}
Paths       == {"/remote/chat", "/remote/gate", "/remote/none"}

\* The descriptors of opts.paths.
PathItems ==
  [namespace : Namespaces, serverType : ServerTypes, path : Paths]

RECURSIVE SeqsUpTo(_, _)
SeqsUpTo(S, n) ==
  IF n = 0 THEN { <<>> }
  ELSE LET shorter == SeqsUpTo(S, n - 1)
       IN shorter \cup { Append(q, x) : q \in { r \in shorter : Len(r) = n - 1 }, x \in S }

\* An option the caller may leave out: given says whether it is there.
Given(v) == [given |-> TRUE, value |-> v]
Missing  == [given |-> FALSE, value |-> <<>>]

\* The options create is called with.
OptsSet ==
  [paths   : {Missing} \cup { Given(p) : p \in SeqsUpTo(PathItems, MaxPaths) },
   servers : {Missing, Given(<<>>), Given(<<"s1", "s2">>)},
   context : {Undefined, "ctx"}]

\* The options of the client whose lifecycle Spec follows: its registry holds
\* the stubs of Stubs.
DefaultOpts ==
  [paths   |-> Given(<< [namespace |-> "user", serverType |-> "chat",
                          path |-> "/remote/chat"],
                        [namespace |-> "sys", serverType |-> "gate",
                          path |-> "/remote/gate"] >>),
   servers |-> Given(<<"s1", "s2">>),
   context |-> "ctx"]

\* obj.name: undefined when the object has no such property.
Field(obj, name) == IF name \in DOMAIN obj THEN obj[name] ELSE Undefined

\* checkParams(opts): what it raises.
checkParams(opts) ==
  IF ~opts.paths.given \/ Len(opts.paths.value) = 0
  THEN "opts.paths should not be empty."
  ELSE IF ~opts.servers.given \/ Len(opts.servers.value) = 0
  THEN "opts.servers should not be empty."
  ELSE NoThrow

\* createNamespace that always starts the namespace afresh: proxies[namespace] = {}
createNamespace_resets(namespace, proxies) ==
  IF namespace \in DOMAIN proxies THEN [proxies EXCEPT ![namespace] = <<>>]
  ELSE proxies @@ (namespace :> <<>>)

\* createNamespace(namespace, proxies): proxies[namespace] = proxies[namespace] || {}
createNamespace(namespace, proxies) ==
  IF namespace \in DOMAIN proxies THEN proxies
  ELSE proxies @@ (namespace :> <<>>)

\* loadedCB(path, moduleName, module, attach): the stub Proxy.create returns.
loadedCB(moduleName, attach) == [service |-> moduleName, attach |-> attach]

\* Loader.load(item.path, context, item, loadedCB): the stubs of the modules found.
Load(item) ==
  LET found == Discover(item.path)
  IN IF found = <<>> THEN <<>> ELSE << loadedCB(found[1], item) >>

\* One turn of the loop of generateProxies on item, from the registry proxies.
loopBody(proxies, item) ==
  LET m == Load(item) IN
    IF m # <<>>
    THEN LET p1 == createNamespace(item.namespace, proxies)
         IN [p1 EXCEPT ![item.namespace] =
               IF item.serverType \in DOMAIN @
               THEN [@ EXCEPT ![item.serverType] = m[1]]
               ELSE @ @@ (item.serverType :> m[1])]
    ELSE proxies

\* The registries after 0, 1, ..., Len(paths) turns of the loop.
RECURSIVE registries(_)
registries(paths) ==
  IF paths = <<>> THEN << <<>> >>
  ELSE LET sofar == registries(SubSeq(paths, 1, Len(paths) - 1))
       IN Append(sofar, loopBody(sofar[Len(sofar)], paths[Len(paths)]))

\* generateProxies(client, paths, context): it raises on paths.length when paths
\* is undefined; else it loads every item with context and returns the registry.
generateProxies(paths, context) ==
  IF ~paths.given
  THEN [threw |-> "TypeError", loads |-> <<>>, trace |-> << <<>> >>]
  ELSE [threw |-> NoThrow,
        loads |-> [k \in 1 .. Len(paths.value) |->
                     [path |-> paths.value[k].path, context |-> context,
                      item |-> paths.value[k]]],
        trace |-> registries(paths.value)]

\* new Client(opts): the fields it sets and, when generateProxies returns, the
\* registry and the state.
Client(opts) ==
  LET self == [_servers |-> opts.servers, _context |-> opts.context]
      station == [servers |-> self._servers]
      g == generateProxies(opts.paths, Field(self, "context"))
  IN [pc |-> IF g.threw = NoThrow THEN "inited" ELSE "threw",
      opts |-> opts, self |-> self, station |-> station, threw |-> g.threw,
      loads |-> g.loads, trace |-> g.trace,
      proxies |-> g.trace[Len(g.trace)]]

VARIABLES
  state,         \* client.state
  starts,        \* the start calls handed to the Station, in call order
  calls,         \* the calls handed to the Router or the Station
  stationStops,  \* the Station's stop invocations, in order
  changes,       \* the changes of client.state, in order
  lastOp,        \* what the last step did before it returned
  ctor           \* the construction: its options, the client's fields, the loads

vars == <<state, starts, calls, stationStops, changes, lastOp, ctor>>

\* One step, as its caller and the collaborators see it: its arguments, the state
\* it found, what it raised, the arguments of the completion handler calls it
\* made, the operations of the Station, the Router and the client it invoked,
\* and the console level it logged at.
Op(name, arg, threw, cb, invoked, log) ==
  [op |-> name, arg |-> arg, pre |-> state, threw |-> threw, cb |-> cb,
   invoked |-> invoked, log |-> log]

Init ==
  /\ state = STATE_INITED
  /\ starts = <<>>
  /\ calls = <<>>
  /\ stationStops = <<>>
  /\ changes = <<>>
  /\ lastOp = [op |-> "create", arg |-> <<>>, pre |-> STATE_INITED, threw |-> NoThrow,
               cb |-> <<>>, invoked |-> <<>>, log |-> "none"]
  /\ ctor = [pc |-> "inited"]   \* constructed; SpecCreate follows the construction

\* Before create is called: no client yet, any options.
InitCreate ==
  /\ state = STATE_NONE
  /\ starts = <<>>
  /\ calls = <<>>
  /\ stationStops = <<>>
  /\ changes = <<>>
  /\ lastOp = [op |-> "none", arg |-> <<>>, pre |-> STATE_NONE, threw |-> NoThrow,
               cb |-> <<>>, invoked |-> <<>>, log |-> "none"]
  /\ \E opts \in OptsSet :
       ctor = [pc |-> "new", opts |-> opts, self |-> <<>>, station |-> <<>>,
               threw |-> NoThrow, loads |-> <<>>, trace |-> << <<>> >>,
               proxies |-> <<>>]

\* module.exports.create(opts): return new Client(opts)
create ==
  /\ ctor.pc = "new"
  /\ ctor' = Client(ctor.opts)
  /\ state' = IF ctor'.pc = "inited" THEN STATE_INITED ELSE state
  /\ lastOp' = Op("create", <<>>, ctor'.threw, <<>>,
                  <<"station.create">>, "none")
  /\ UNCHANGED <<starts, calls, stationStops, changes>>

\* this.state = s, remembered when it changes the value
SetState(s) ==
  /\ state' = s
  /\ changes' = IF s = state THEN changes
                ELSE Append(changes, [from |-> state, to |-> s])

\* start with the comparison one state too high: a started client is not rejected.
start_offByOne ==
  IF state > STATE_STARTED
  THEN /\ lastOp' = Op("start", <<>>, NoThrow, <<AlreadyStarted>>, <<>>, "none")
       /\ UNCHANGED <<ctor, state, starts, calls, stationStops, changes>>
  ELSE /\ Len(starts) < MaxStarts
       /\ starts' = Append(starts, [pc |-> "pending", pre |-> state, cbLog |-> <<>>])
       /\ lastOp' = Op("start", <<>>, NoThrow, <<>>, <<"station.start">>, "none")
       /\ UNCHANGED <<ctor, state, calls, stationStops, changes>>

\* ------------------------------------------------------------ pro.start
\* start(cb): rejected at once when state > INITED, else handed to the Station.
start ==
  IF state > STATE_INITED
  THEN /\ lastOp' = Op("start", <<>>, NoThrow, <<AlreadyStarted>>, <<>>, "none")
       /\ UNCHANGED <<ctor, state, starts, calls, stationStops, changes>>
  ELSE /\ Len(starts) < MaxStarts
       /\ starts' = Append(starts, [pc |-> "pending", pre |-> state, cbLog |-> <<>>])
       /\ lastOp' = Op("start", <<>>, NoThrow, <<>>, <<"station.start">>, "none")
       /\ UNCHANGED <<ctor, state, calls, stationStops, changes>>

\* startCB without the return of its error branch: it goes on to the success path.
startCB_noReturn(i, err) ==
  /\ SetState(STATE_STARTED)
  /\ starts' = [starts EXCEPT ![i].pc = "started",
                  ![i].cbLog = IF err # NoErr THEN @ \o <<err, NoErr>> ELSE Append(@, NoErr)]
  /\ lastOp' = Op("startCB", <<i, err>>, NoThrow,
                  IF err # NoErr THEN <<err, NoErr>> ELSE <<NoErr>>, <<>>,
                  IF err # NoErr THEN "error" ELSE "none")
  /\ UNCHANGED <<ctor, calls, stationStops>>

\* startCB that logs the Station's error and returns without telling the caller.
startCB_swallowsError(i, err) ==
  IF err # NoErr
  THEN /\ starts' = [starts EXCEPT ![i].pc = "failed"]
       /\ lastOp' = Op("startCB", <<i, err>>, NoThrow, <<>>, <<>>, "error")
       /\ UNCHANGED <<ctor, state, calls, stationStops, changes>>
  ELSE /\ SetState(STATE_STARTED)
       /\ starts' = [starts EXCEPT ![i].pc = "started", ![i].cbLog = Append(@, NoErr)]
       /\ lastOp' = Op("startCB", <<i, err>>, NoThrow, <<NoErr>>, <<>>, "none")
       /\ UNCHANGED <<ctor, calls, stationStops>>

\* The function start hands to this._station.start, run with the Station's err.
startCB(i, err) ==
  IF err # NoErr
  THEN /\ starts' = [starts EXCEPT ![i].pc = "failed", ![i].cbLog = Append(@, err)]
       /\ lastOp' = Op("startCB", <<i, err>>, NoThrow, <<err>>, <<>>, "error")
       /\ UNCHANGED <<ctor, state, calls, stationStops, changes>>
  ELSE /\ SetState(STATE_STARTED)
       /\ starts' = [starts EXCEPT ![i].pc = "started", ![i].cbLog = Append(@, NoErr)]
       /\ lastOp' = Op("startCB", <<i, err>>, NoThrow, <<NoErr>>, <<>>, "none")
       /\ UNCHANGED <<ctor, calls, stationStops>>

\* The Station completes a start it was handed, once, with an error or without.
StationStartDone ==
  \E i \in 1 .. Len(starts) :
    /\ starts[i].pc = "pending"
    /\ \E err \in StartErrs \cup {NoErr} : startCB(i, err)

\* stop that refuses only a closed client: it also closes one never started.
stop_closesFromInited(force) ==
  IF state = STATE_CLOSED
  THEN /\ lastOp' = Op("stop", <<force>>, NoThrow, <<>>, <<>>, "warn")
       /\ UNCHANGED <<ctor, state, starts, calls, stationStops, changes>>
  ELSE /\ SetState(STATE_CLOSED)
       /\ stationStops' = Append(stationStops,
                                 [force |-> force, stateAtCall |-> STATE_CLOSED])
       /\ lastOp' = Op("stop", <<force>>, NoThrow, <<>>, <<"station.stop">>, "none")
       /\ UNCHANGED <<ctor, starts, calls>>

\* stop that tells the Station first and sets the state after, and passes no flag.
stop_delegatesFirst(force) ==
  IF state # STATE_STARTED
  THEN /\ lastOp' = Op("stop", <<force>>, NoThrow, <<>>, <<>>, "warn")
       /\ UNCHANGED <<ctor, state, starts, calls, stationStops, changes>>
  ELSE /\ stationStops' = Append(stationStops,
                                 [force |-> FALSE, stateAtCall |-> state])
       /\ SetState(STATE_CLOSED)
       /\ lastOp' = Op("stop", <<force>>, NoThrow, <<>>, <<"station.stop">>, "none")
       /\ UNCHANGED <<ctor, starts, calls>>

\* stop without its state check, which drops the starts the Station still holds.
stop_cancelsPending(force) ==
  /\ SetState(STATE_CLOSED)
  /\ starts' = [i \in 1 .. Len(starts) |->
                  IF starts[i].pc = "pending"
                  THEN [starts[i] EXCEPT !.pc = "cancelled"] ELSE starts[i]]
  /\ stationStops' = Append(stationStops,
                            [force |-> force, stateAtCall |-> STATE_CLOSED])
  /\ lastOp' = Op("stop", <<force>>, NoThrow, <<>>, <<"station.stop">>, "none")
  /\ UNCHANGED <<ctor, calls>>

\* ------------------------------------------------------------- pro.stop
stop(force) ==
  IF state # STATE_STARTED
  THEN /\ lastOp' = Op("stop", <<force>>, NoThrow, <<>>, <<>>, "warn")
       /\ UNCHANGED <<ctor, state, starts, calls, stationStops, changes>>
  ELSE /\ SetState(STATE_CLOSED)
       /\ stationStops' = Append(stationStops,
                                 [force |-> force, stateAtCall |-> STATE_CLOSED])
       /\ lastOp' = Op("stop", <<force>>, NoThrow, <<>>, <<"station.stop">>, "none")
       /\ UNCHANGED <<ctor, starts, calls>>

Stop == \E force \in BOOLEAN : stop(force)

\* rpcInvoke without its state check: it dispatches in every state.
rpcInvoke_noStateCheck(st, serverId, msg) ==
  [threw |-> NoThrow,
   dispatched |-> << [serverId |-> serverId, msg |-> msg, opts |-> "null",
                      stateAtCall |-> st] >>]

\* -------------------------------------------------------- pro.rpcInvoke
\* rpcInvoke(serverId, msg, cb) in state st: what it raises, and the dispatch
\* it hands to the Station (none when it raises).
rpcInvoke(st, serverId, msg) ==
  IF st # STATE_STARTED
  THEN [threw |-> NotRunningInvoke, dispatched |-> <<>>]
  ELSE [threw |-> NoThrow,
        dispatched |-> << [serverId |-> serverId, msg |-> msg, opts |-> "null",
                           stateAtCall |-> st] >>]

\* The envelope of a direct rpcInvoke call by application code.
DirectMsgs ==
  { [namespace |-> "user", serverType |-> "chat", service |-> "chatRemote",
     method |-> "send", args |-> <<"a">>] }

\* Application code calls client.rpcInvoke directly.
RpcInvokeCall ==
  \E serverId \in ServerIds, msg \in DirectMsgs :
    LET r == rpcInvoke(state, serverId, msg) IN
      IF r.threw # NoThrow
      THEN /\ lastOp' = Op("rpcInvoke", <<serverId>>, r.threw, <<>>, <<>>, "none")
           /\ UNCHANGED <<ctor, state, starts, calls, stationStops, changes>>
      ELSE /\ Len(calls) < MaxCalls
           /\ calls' = Append(calls,
                [kind |-> "direct", args |-> <<>>, pc |-> "dispatched",
                 site |-> [service |-> msg.service, method |-> msg.method,
                           attach |-> [namespace |-> msg.namespace,
                                       serverType |-> msg.serverType]],
                 routed |-> <<>>, dispatched |-> r.dispatched, cbLog |-> <<>>,
                 threw |-> NoThrow])
           /\ lastOp' = Op("rpcInvoke", <<serverId>>, NoThrow, <<>>,
                           <<"station.dispatch">>, "none")
           /\ UNCHANGED <<ctor, state, starts, stationStops, changes>>

\* ------------------------------------------------- pro.before, pro.after
Filters == {"filter"}

before == \E filter \in Filters :
  /\ lastOp' = Op("before", <<filter>>, NoThrow, <<>>, <<"station.before">>, "none")
  /\ UNCHANGED <<ctor, state, starts, calls, stationStops, changes>>

after == \E filter \in Filters :
  /\ lastOp' = Op("after", <<filter>>, NoThrow, <<>>, <<"station.after">>, "none")
  /\ UNCHANGED <<ctor, state, starts, calls, stationStops, changes>>

\* --------------------------------------------------------------- proxyCB
\* args.pop() written as a second args.shift(): it takes the wrong end.
pop_takesFirst(args) ==
  IF args = <<>> THEN [value |-> Undefined, rest |-> <<>>]
  ELSE [value |-> Head(args), rest |-> Tail(args)]

\* args.shift() and args.pop(): the element taken and the list left.
\* Of an empty list both give undefined and leave it empty.
shift(args) ==
  IF args = <<>> THEN [value |-> Undefined, rest |-> <<>>]
  ELSE [value |-> Head(args), rest |-> Tail(args)]
pop(args) ==
  IF args = <<>> THEN [value |-> Undefined, rest |-> <<>>]
  ELSE [value |-> args[Len(args)], rest |-> SubSeq(args, 1, Len(args) - 1)]

\* The envelope with namespace and serverType taken from each other's field.
BuildMsg_swapsAttach(attach, serviceName, methodName, args) ==
  [namespace |-> attach.serverType, serverType |-> attach.namespace,
   service |-> serviceName, method |-> methodName, args |-> args]

\* The envelope proxyCB builds after it took the hint and the handler away.
BuildMsg(attach, serviceName, methodName, args) ==
  [namespace |-> attach.namespace, serverType |-> attach.serverType,
   service |-> serviceName, method |-> methodName, args |-> args]

\* proxyCB from args.shift() to the call of client.router.route: the routing
\* completion waits in calls with the envelope it closes over.
routeCall(serviceName, methodName, args, attach) ==
  LET routeParam == shift(args).value
      args1 == shift(args).rest
      cb == pop(args1).value
      args2 == pop(args1).rest
      msg == BuildMsg(attach, serviceName, methodName, args2)
  IN /\ Len(calls) < MaxCalls
     /\ calls' = Append(calls,
          [kind |-> "stub", args |-> args, pc |-> "routing",
           site |-> [service |-> serviceName, method |-> methodName, attach |-> attach],
           routed |-> << [msg |-> msg, routeParam |-> routeParam, cb |-> cb] >>,
           dispatched |-> <<>>, cbLog |-> <<>>, threw |-> NoThrow])
     /\ lastOp' = Op("proxyCB", args, NoThrow, <<>>, <<"router.route">>, "none")
     /\ UNCHANGED <<ctor, state, starts, stationStops, changes>>

\* proxyCB without its arity check.
proxyCB_noArityCheck(serviceName, methodName, args, attach) ==
  IF state # STATE_STARTED
  THEN /\ lastOp' = Op("proxyCB", args, NotRunningProxy, <<>>, <<>>, "none")
       /\ UNCHANGED <<ctor, state, starts, calls, stationStops, changes>>
  ELSE routeCall(serviceName, methodName, args, attach)

\* proxyCB(serviceName, methodName, args, attach): the state check, the arity
\* check, then the routing.
proxyCB(serviceName, methodName, args, attach) ==
  IF state # STATE_STARTED
  THEN /\ lastOp' = Op("proxyCB", args, NotRunningProxy, <<>>, <<>>, "none")
       /\ UNCHANGED <<ctor, state, starts, calls, stationStops, changes>>
  ELSE IF Len(args) < 2
  THEN /\ lastOp' = Op("proxyCB", args, NoThrow, <<>>, <<>>, "error")
       /\ UNCHANGED <<ctor, state, starts, calls, stationStops, changes>>
  ELSE routeCall(serviceName, methodName, args, attach)

\* Application code invokes a member of a stub of the registry.
StubCall ==
  \E stub \in Stubs, args \in ArgLists :
    proxyCB(stub.service, stub.method, args, stub.attach)

\* client.rpcInvoke(serverId, msg, cb) inside the routing completion of call i;
\* said is what that completion has passed to the handler before this line.
invokeRouted(i, err, serverId, said) ==
  LET r == rpcInvoke(state, serverId, calls[i].routed[1].msg) IN
    IF r.threw # NoThrow
    THEN /\ calls' = [calls EXCEPT ![i].pc = "raised", ![i].threw = r.threw,
                                   ![i].cbLog = @ \o said]
         /\ lastOp' = Op("routeCB", <<i, err, serverId>>, r.threw, said,
                         <<"rpcInvoke">>, "none")
         /\ UNCHANGED <<ctor, state, starts, stationStops, changes>>
    ELSE /\ calls' = [calls EXCEPT ![i].pc = "dispatched",
                                   ![i].dispatched = r.dispatched,
                                   ![i].cbLog = @ \o said]
         /\ lastOp' = Op("routeCB", <<i, err, serverId>>, NoThrow, said,
                         <<"rpcInvoke", "station.dispatch">>, "none")
         /\ UNCHANGED <<ctor, state, starts, stationStops, changes>>

\* routeCB without the return of its error branch: it goes on to rpcInvoke.
routeCB_noReturn(i, err, serverId) ==
  invokeRouted(i, err, serverId, IF err # NoErr THEN <<err>> ELSE <<>>)

\* The function proxyCB hands to the Router, run with the Router's (err, serverId).
routeCB(i, err, serverId) ==
  IF err # NoErr
  THEN /\ calls' = [calls EXCEPT ![i].pc = "done", ![i].cbLog = Append(@, err)]
       /\ lastOp' = Op("routeCB", <<i, err, serverId>>, NoThrow, <<err>>, <<>>, "none")
       /\ UNCHANGED <<ctor, state, starts, stationStops, changes>>
  ELSE invokeRouted(i, err, serverId, <<>>)

\* The Router completes a routing it was handed, once: an error or a server id.
RouterDone ==
  \E i \in 1 .. Len(calls) :
    /\ calls[i].pc = "routing"
    /\ \/ \E err \in RouteErrs : routeCB(i, err, Undefined)
       \/ \E serverId \in ServerIds : routeCB(i, NoErr, serverId)

\* The Station completes a dispatch it was handed, once, calling its callback.
StationDispatchDone ==
  \E i \in 1 .. Len(calls) :
    /\ calls[i].pc = "dispatched"
    /\ \E reply \in Replies :
         /\ calls' = [calls EXCEPT ![i].pc = "done", ![i].cbLog = Append(@, reply)]
         /\ lastOp' = Op("dispatchCB", <<i, reply>>, NoThrow, <<reply>>, <<>>, "none")
         /\ UNCHANGED <<ctor, state, starts, stationStops, changes>>

Next ==
  \/ start
  \/ StationStartDone
  \/ Stop
  \/ RpcInvokeCall
  \/ before
  \/ after
  \/ StubCall
  \/ RouterDone
  \/ StationDispatchDone

Spec == Init /\ [][Next]_vars

\* The construction alone, over every option set.
NextCreate == create

SpecCreate == InitCreate /\ [][NextCreate]_vars

\* ======================================================================
\* Properties
\* ======================================================================

\* The start calls made before the last step, when that step was a start call.
EarlierStarts ==
  IF lastOp.invoked = <<"station.start">> THEN Len(starts) - 1 ELSE Len(starts)

\* The Station stop invocations made before the last step, when it was a stop call.
EarlierStops ==
  IF lastOp.invoked = <<"station.stop">> THEN Len(stationStops) - 1
  ELSE Len(stationStops)

\* C1: every stub call made with at least 2 arguments on a STARTED client has
\* its completion handler invoked exactly once: a call that is over (its routing
\* completion and, if dispatched, the Station's completion have run) has one
\* handler invocation, and no call ever has more than one.
C1_HandlerInvokedExactlyOnce ==
  \A i \in 1 .. Len(calls) :
    calls[i].kind = "stub" =>
      /\ Len(calls[i].cbLog) <= 1
      /\ calls[i].pc \in {"done", "raised"} => Len(calls[i].cbLog) = 1

\* C2: the client state never moves back: every change of state goes up in
\* INITED < STARTED < CLOSED.
C2_StateMonotonic ==
  \A k \in 1 .. Len(changes) : changes[k].from < changes[k].to

\* C3: rpcInvoke called while the state is not STARTED, by application code or
\* by a routing completion, raises the precondition error, invokes neither the
\* Station's dispatch nor the completion handler, and leaves the state as it was.
C3_RpcInvokeNotStarted ==
  /\ (lastOp.op = "rpcInvoke" /\ lastOp.pre # STATE_STARTED) =>
       /\ lastOp.threw = NotRunningInvoke
       /\ lastOp.invoked = <<>>
       /\ lastOp.cb = <<>>
       /\ state = lastOp.pre
  /\ (lastOp.op = "routeCB" /\ lastOp.pre # STATE_STARTED
        /\ lastOp.invoked # <<>> /\ lastOp.invoked[1] = "rpcInvoke") =>
       /\ lastOp.threw = NotRunningInvoke
       /\ lastOp.invoked = <<"rpcInvoke">>
       /\ lastOp.cb = <<>>
       /\ state = lastOp.pre
  /\ \A i \in 1 .. Len(calls) :
       calls[i].dispatched # <<>> => calls[i].dispatched[1].stateAtCall = STATE_STARTED

C3_Witness ==
  /\ lastOp.op = "rpcInvoke"
  /\ lastOp.pre = STATE_CLOSED
  /\ lastOp.threw = NotRunningInvoke

\* C4: a start call made when an earlier start call is pending at the Station
\* or has succeeded reports the "already started" error and does not reach the
\* Station; when the earlier call has succeeded it leaves the state STARTED.
C4_SecondStartRejected ==
  (/\ lastOp.op = "start"
   /\ stationStops = <<>>
   /\ \E i \in 1 .. EarlierStarts : starts[i].pc \in {"pending", "started"}) =>
     /\ lastOp.cb = <<AlreadyStarted>>
     /\ lastOp.invoked = <<>>
     /\ (lastOp.pre = STATE_STARTED => state = STATE_STARTED)

\* C5: the state changes from INITED to STARTED at most once, exactly once when
\* a start has succeeded, and the handler of every start that succeeded has
\* been invoked exactly once, with no error.
C5_StartSucceedsOnce ==
  LET up == { k \in 1 .. Len(changes) :
                changes[k].from = STATE_INITED /\ changes[k].to = STATE_STARTED }
  IN /\ Cardinality(up) <= 1
     /\ (\E i \in 1 .. Len(starts) : starts[i].pc = "started") => Cardinality(up) = 1
     /\ \A i \in 1 .. Len(starts) :
          /\ starts[i].pc = "started" => starts[i].cbLog = <<NoErr>>
          /\ starts[i].pc = "pending" => starts[i].cbLog = <<>>

C5_Witness ==
  /\ Len(starts) = 2
  /\ starts[1].pc = "started"
  /\ starts[2].pc = "started"
  /\ Len(changes) >= 1
  /\ changes[1] = [from |-> STATE_INITED, to |-> STATE_STARTED]

\* C6: when the Station's start completes with an error the state is left as it
\* was (a client in INITED stays in INITED), that error is passed to the handler
\* of that start call, once, and a start call made in INITED is handed to the
\* Station, also after an earlier failure.
C6_StartFailure ==
  /\ (lastOp.op = "startCB" /\ lastOp.arg[2] # NoErr) =>
       /\ state = lastOp.pre
       /\ lastOp.cb = <<lastOp.arg[2]>>
       /\ starts[lastOp.arg[1]].cbLog = <<lastOp.arg[2]>>
  /\ \A i \in 1 .. Len(starts) :
       starts[i].pc = "failed" => Len(starts[i].cbLog) = 1 /\ starts[i].cbLog[1] \in StartErrs
  /\ (\A i \in 1 .. Len(starts) : starts[i].pc \in {"failed", "pending"}) =>
       state = STATE_INITED
  /\ (lastOp.op = "start" /\ lastOp.pre = STATE_INITED) =>
       /\ lastOp.invoked = <<"station.start">>
       /\ lastOp.cb = <<>>
       /\ starts[Len(starts)].pc = "pending"

C6_Witness ==
  /\ lastOp.op = "start"
  /\ lastOp.pre = STATE_INITED
  /\ Len(starts) = 2
  /\ starts[1].pc = "failed"
  /\ starts[1].cbLog = <<"startErr">>
  /\ starts[2].pc = "pending"

\* C7: once stop has closed the client, no later stop call invokes the
\* Station's stop or finds the state other than CLOSED, so the Station's stop
\* is invoked at most once.
C7_StopIdempotent ==
  /\ Len(stationStops) <= 1
  /\ (lastOp.op = "stop" /\ EarlierStops >= 1) =>
       /\ lastOp.pre = STATE_CLOSED
       /\ lastOp.invoked = <<>>
       /\ state = STATE_CLOSED

\* C8: a start call made in STARTED or CLOSED passes the "already started"
\* error to its handler within the call, does not invoke the Station's start
\* and leaves the state as it was; every start the Station was handed was
\* called in INITED.
C8_StartRejected ==
  /\ (lastOp.op = "start" /\ lastOp.pre \in {STATE_STARTED, STATE_CLOSED}) =>
       /\ lastOp.cb = <<AlreadyStarted>>
       /\ lastOp.threw = NoThrow
       /\ lastOp.invoked = <<>>
       /\ state = lastOp.pre
  /\ \A i \in 1 .. Len(starts) : starts[i].pre = STATE_INITED

C8_Witness ==
  /\ lastOp.op = "start"
  /\ lastOp.pre = STATE_CLOSED
  /\ lastOp.cb = <<AlreadyStarted>>
  /\ state = STATE_CLOSED

\* C9: when the Router completes a routing with an error, that error is what
\* the call's handler receives, once, and the completion invokes neither
\* rpcInvoke nor the Station's dispatch for the call.
C9_RoutingErrorForwarded ==
  (lastOp.op = "routeCB" /\ lastOp.arg[2] # NoErr) =>
    /\ lastOp.cb = <<lastOp.arg[2]>>
    /\ lastOp.threw = NoThrow
    /\ lastOp.invoked = <<>>
    /\ calls[lastOp.arg[1]].cbLog = <<lastOp.arg[2]>>
    /\ calls[lastOp.arg[1]].dispatched = <<>>
    /\ calls[lastOp.arg[1]].pc = "done"

C9_Witness ==
  /\ lastOp.op = "routeCB"
  /\ lastOp.arg[2] = "routeErrB"
  /\ calls[lastOp.arg[1]].cbLog = <<"routeErrB">>
  /\ \E j \in 1 .. Len(calls) : calls[j].pc = "dispatched"

\* C10: a stub call with fewer than 2 arguments on a STARTED client returns
\* without raising and invokes neither the handler nor the Router nor the
\* Station; nothing the Router or the Station holds comes from such a call.
C10_ArityDrop ==
  /\ (lastOp.op = "proxyCB" /\ lastOp.pre = STATE_STARTED /\ Len(lastOp.arg) < 2) =>
       /\ lastOp.threw = NoThrow
       /\ lastOp.cb = <<>>
       /\ lastOp.invoked = <<>>
       /\ lastOp.log = "error"
  /\ \A i \in 1 .. Len(calls) : calls[i].kind = "stub" => Len(calls[i].args) >= 2

C10_Witness ==
  /\ lastOp.op = "proxyCB"
  /\ lastOp.pre = STATE_STARTED
  /\ lastOp.arg = <<Handler>>
  /\ lastOp.threw = NoThrow
  /\ calls = <<>>

\* The registry holds a stub at [ns][st].
HasStub(reg, ns, st) == ns \in DOMAIN reg /\ st \in DOMAIN reg[ns]

\* C13: create produces no client in state INITED when opts.paths is missing
\* or empty or opts.servers is missing or empty.
C13_ValidationRejects ==
  ctor.pc = "inited" =>
    /\ ctor.opts.paths.given /\ ctor.opts.paths.value # <<>>
    /\ ctor.opts.servers.given /\ ctor.opts.servers.value # <<>>

\* C14: in a construction, a descriptor for which discovery yields nothing
\* leaves the registry as it was and raises nothing; a descriptor for which it
\* yields a module has its stub stored at registry[namespace][serverType], and
\* every stub registered before under another (namespace, serverType) is still
\* there; at the end a stub is registered under exactly the pairs for which
\* some descriptor yielded a module.
C14_RegistryBuild ==
  (ctor.pc # "new" /\ ctor.opts.paths.given) =>
    LET paths == ctor.opts.paths.value IN
      /\ ctor.pc = "inited" /\ ctor.threw = NoThrow /\ state = STATE_INITED
      /\ Len(ctor.trace) = Len(paths) + 1
      /\ ctor.proxies = ctor.trace[Len(paths) + 1]
      /\ \A k \in 1 .. Len(paths) :
           LET item == paths[k]
               regBefore == ctor.trace[k]
               regAfter == ctor.trace[k + 1]
           IN IF Discover(item.path) = <<>>
              THEN regAfter = regBefore
              ELSE /\ HasStub(regAfter, item.namespace, item.serverType)
                   /\ regAfter[item.namespace][item.serverType]
                        = [service |-> Discover(item.path)[1], attach |-> item]
                   /\ \A ns \in Namespaces, st \in ServerTypes :
                        (HasStub(regBefore, ns, st)
                           /\ <<ns, st>> # <<item.namespace, item.serverType>>) =>
                          HasStub(regAfter, ns, st) /\ regAfter[ns][st] = regBefore[ns][st]
      /\ \A ns \in Namespaces, st \in ServerTypes :
           HasStub(ctor.proxies, ns, st) <=>
             \E k \in 1 .. Len(paths) :
               /\ paths[k].namespace = ns /\ paths[k].serverType = st
               /\ Discover(paths[k].path) # <<>>

C14_Witness ==
  /\ ctor.pc = "inited"
  /\ ctor.opts.paths.value =
       << [namespace |-> "user", serverType |-> "chat", path |-> "/remote/chat"],
          [namespace |-> "sys", serverType |-> "gate", path |-> "/remote/none"],
          [namespace |-> "user", serverType |-> "gate", path |-> "/remote/gate"] >>
  /\ DOMAIN ctor.proxies = {"user"}
  /\ DOMAIN ctor.proxies["user"] = {"chat", "gate"}
  /\ ctor.proxies["user"]["chat"].service = "chatRemote"

\* C20: every load of a construction receives the context of the options, with
\* the path and the descriptor of its entry.
C20_LoadGetsContext ==
  (ctor.pc = "inited") =>
    /\ Len(ctor.loads) = Len(ctor.opts.paths.value)
    /\ \A k \in 1 .. Len(ctor.loads) :
         /\ ctor.loads[k].context = ctor.opts.context
         /\ ctor.loads[k].item = ctor.opts.paths.value[k]
         /\ ctor.loads[k].path = ctor.opts.paths.value[k].path

\* C11: for every stub call with n >= 2 arguments the Router's and the
\* Station's envelope has as args the argument list without its first and its
\* last element, in order; the first is the Router's hint, the last the handler.
C11_ArgsStripped ==
  \A i \in 1 .. Len(calls) :
    calls[i].kind = "stub" =>
      LET args == calls[i].args
          n == Len(args)
          r == calls[i].routed[1]
          inner == [k \in 1 .. n - 2 |-> args[k + 1]]
      IN /\ n >= 2
         /\ Len(r.msg.args) = n - 2
         /\ r.msg.args = inner
         /\ r.routeParam = args[1]
         /\ r.cb = args[n]
         /\ calls[i].dispatched # <<>> => calls[i].dispatched[1].msg.args = inner

C11_Witness ==
  \E i, j \in 1 .. Len(calls) :
    /\ calls[i].args = <<"h", "a", "b", "cb">>
    /\ calls[i].dispatched # <<>>
    /\ calls[i].dispatched[1].msg.args = <<"a", "b">>
    /\ calls[j].args = <<"h", "cb">>
    /\ calls[j].routed[1].msg.args = <<>>

\* C12: the Station's dispatch of a routed stub call receives the server id
\* the Router resolved and the envelope the Router was given, whose namespace
\* and serverType are the stub's attach and whose service and method are the
\* invoked member's, for each of the calls in flight.
C12_RoundTrip ==
  /\ \A i \in 1 .. Len(calls) :
       calls[i].kind = "stub" =>
         LET site == calls[i].site
             msg == calls[i].routed[1].msg
         IN /\ msg.namespace = site.attach.namespace
            /\ msg.serverType = site.attach.serverType
            /\ msg.service = site.service
            /\ msg.method = site.method
            /\ \E stub \in Stubs :
                 /\ stub.attach = site.attach
                 /\ stub.service = site.service /\ stub.method = site.method
            /\ calls[i].dispatched # <<>> =>
                 /\ calls[i].dispatched[1].msg = msg
                 /\ calls[i].dispatched[1].serverId \in ServerIds
  /\ (lastOp.op = "routeCB" /\ lastOp.arg[2] = NoErr /\ lastOp.threw = NoThrow) =>
       /\ calls[lastOp.arg[1]].dispatched # <<>>
       /\ calls[lastOp.arg[1]].dispatched[1].serverId = lastOp.arg[3]

C12_Witness ==
  /\ Len(calls) = 2
  /\ calls[1].pc = "dispatched" /\ calls[2].pc = "dispatched"
  /\ calls[1].kind = "stub" /\ calls[2].kind = "stub"
  /\ calls[1].site.attach.namespace = "user" /\ calls[2].site.attach.namespace = "sys"
  /\ calls[1].dispatched[1].serverId = "s1" /\ calls[2].dispatched[1].serverId = "s2"
  /\ calls[2].dispatched[1].msg.serverType = "gate"
  /\ lastOp.op = "routeCB" /\ lastOp.arg = <<1, NoErr, "s1">>

\* C15: no completion the Station or the Router runs raises; the routing
\* completion of a call that the Router resolves after stop has closed the
\* client passes the failure to the call's handler.
C15_NoThrowInCompletion ==
  /\ lastOp.op \in {"startCB", "routeCB", "dispatchCB"} => lastOp.threw = NoThrow
  /\ (lastOp.op = "routeCB" /\ lastOp.pre = STATE_CLOSED) => Len(lastOp.cb) = 1
  /\ \A i \in 1 .. Len(calls) : calls[i].threw = NoThrow

\* C16: the state becomes STARTED only in the Station's successful start
\* completion and CLOSED only in a stop call made in STARTED; no other step
\* changes it.
C16_StateChangesOnlyBy ==
  /\ state # lastOp.pre =>
       \/ /\ state = STATE_STARTED
          /\ lastOp.op = "startCB" /\ lastOp.arg[2] = NoErr
       \/ /\ state = STATE_CLOSED
          /\ lastOp.op = "stop" /\ lastOp.pre = STATE_STARTED
  /\ lastOp.op \in {"proxyCB", "rpcInvoke", "routeCB", "dispatchCB", "before",
                    "after", "start"} => state = lastOp.pre
  /\ (lastOp.op = "startCB" /\ lastOp.arg[2] # NoErr) => state = lastOp.pre
  /\ (lastOp.op = "stop" /\ lastOp.pre # STATE_STARTED) => state = lastOp.pre
  /\ \A k \in 1 .. Len(changes) :
       \/ changes[k].to = STATE_STARTED
       \/ changes[k] = [from |-> STATE_STARTED, to |-> STATE_CLOSED]

C16_Witness ==
  /\ lastOp.op = "before"
  /\ state = STATE_CLOSED
  /\ changes = << [from |-> STATE_INITED, to |-> STATE_STARTED],
                  [from |-> STATE_STARTED, to |-> STATE_CLOSED] >>
  /\ \E i \in 1 .. Len(calls) : calls[i].pc = "raised"

\* C17: when a stop call made in STARTED invokes the Station's stop the state
\* is CLOSED already and the Station gets the caller's force; a stop call made
\* in INITED or CLOSED does not invoke the Station's stop.
C17_StopDelegation ==
  /\ \A k \in 1 .. Len(stationStops) : stationStops[k].stateAtCall = STATE_CLOSED
  /\ (lastOp.op = "stop" /\ lastOp.pre = STATE_STARTED) =>
       /\ lastOp.invoked = <<"station.stop">>
       /\ stationStops # <<>>
       /\ stationStops[Len(stationStops)].force = lastOp.arg[1]
       /\ state = STATE_CLOSED
  /\ (lastOp.op = "stop" /\ lastOp.pre # STATE_STARTED) =>
       /\ lastOp.invoked = <<>>
       /\ lastOp.log = "warn"
  /\ Len(stationStops) =
       Cardinality({ k \in 1 .. Len(changes) : changes[k].to = STATE_CLOSED })

C17_Witness ==
  /\ lastOp.op = "stop"
  /\ lastOp.pre = STATE_STARTED
  /\ lastOp.arg = <<TRUE>>
  /\ stationStops = << [force |-> TRUE, stateAtCall |-> STATE_CLOSED] >>

\* C18: every dispatch the Station is handed was issued in state STARTED; a
\* step that finds the state INITED or CLOSED invokes no dispatch.
C18_DispatchOnlyStarted ==
  /\ \A i \in 1 .. Len(calls) :
       /\ calls[i].dispatched # <<>> => calls[i].dispatched[1].stateAtCall = STATE_STARTED
       /\ calls[i].pc = "dispatched" => calls[i].dispatched # <<>>
  /\ lastOp.pre # STATE_STARTED =>
       \A k \in 1 .. Len(lastOp.invoked) : lastOp.invoked[k] # "station.dispatch"

C18_Witness ==
  /\ state = STATE_CLOSED
  /\ lastOp.op = "routeCB" /\ lastOp.pre = STATE_CLOSED /\ lastOp.arg[2] = NoErr
  /\ calls[lastOp.arg[1]].dispatched = <<>>

\* C19: a stop call made in INITED, also while a start is pending at the
\* Station, changes nothing: the state stays INITED, the Station's stop is not
\* invoked, the pending starts stay pending; and a start the Station completes
\* without error leaves the client STARTED.
C19_StopBeforeStarted ==
  /\ [][(lastOp'.op = "stop" /\ state = STATE_INITED) =>
          /\ state' = STATE_INITED
          /\ starts' = starts
          /\ stationStops' = stationStops
          /\ lastOp'.invoked = <<>>]_vars
  /\ [](\A i \in 1 .. Len(starts) : starts[i].pc \in {"pending", "failed", "started"})
  /\ []((lastOp.op = "startCB" /\ lastOp.arg[2] = NoErr) => state = STATE_STARTED)

C19_Witness ==
  /\ lastOp.op = "stop"
  /\ lastOp.pre = STATE_INITED
  /\ state = STATE_INITED
  /\ \E i \in 1 .. Len(starts) : starts[i].pc = "pending"

====
